---- MODULE Spec2Model ----
(***************************************************************************)
(* Scoped query filters of zenml (src/zenml/models/v2/base/scoped.py):     *)
(* UserScopedFilter, WorkspaceScopedFilter, ShareableFilter,               *)
(* ModelScopedFilter and ModelVersionScopedFilter.  One filter object is   *)
(* modelled: its class, its scope fields, the calls made on it, the        *)
(* directory (Client) it resolves names against and the query it filters.  *)
(*                                                                         *)
(* Two more parts of the repository have a specification of their own:     *)
(* ClearMLOrchestrator (OrchSpec) and the model / model version routers    *)
(* (ApiSpec).  Each specification moves its own variables and leaves the   *)
(* others at their initial values.                                         *)
(***************************************************************************)
EXTENDS Integers, Sequences, FiniteSets, TLC

VARIABLES kind, scope_user, scope_workspace, model_id, model_version_id,
          lookups, last, base, result, renamed

\* ClearMLOrchestrator: where prepare_or_run_pipeline stands, what it was
\* called with, its locals, the containers it started and the log streams
\* still open, the run ids uuid4 gave, the process environment and what
\* get_orchestrator_run_id returned.
VARIABLES pc, deployment, step_index, orchestrator_run_id, launched,
          open_logs, lines_left, warnings, issued, lookup_id, environ, got

\* Routers: the request a handler served last, and the number of writes
\* that reached the store.
VARIABLES request, store_writes

filterVars == <<kind, scope_user, scope_workspace, model_id,
                model_version_id, lookups, last, base, result, renamed>>

orchVars == <<pc, deployment, step_index, orchestrator_run_id, launched,
              open_logs, lines_left, warnings, issued, lookup_id, environ,
              got>>

apiVars == <<request, store_writes>>

vars == <<filterVars, orchVars, apiVars>>

\* Python's None / SQL NULL.
None == <<>>

\* "No exception was raised".
NoError == "ok"

\* Number of hexadecimal digits uuid.UUID(hex) requires.  The library asks
\* for 32; identifiers are scaled down to HexLen digits, and every identifier
\* and reference text below is built from HexLen.
HexLen == 4

\* Cap on the number of directory lookups followed in one behaviour.
MaxLookups == 2

----------------------------------------------------------------------------
(* uuid.UUID(str(x)) as called by set_scope_model / set_scope_model_version *)

HexLower == {"0", "1", "2", "3", "4", "5", "6", "7", "8", "9",
             "a", "b", "c", "d", "e", "f"}

HexUpper == {"A", "B", "C", "D", "E", "F"}

Braces == {"{", "}"}

Lower(c) ==
    CASE c = "A" -> "a" [] c = "B" -> "b" [] c = "C" -> "c"
      [] c = "D" -> "d" [] c = "E" -> "e" [] c = "F" -> "f"
      [] OTHER -> c

RECURSIVE LStrip(_)
LStrip(s) ==
    IF s # <<>> /\ Head(s) \in Braces THEN LStrip(Tail(s)) ELSE s

RECURSIVE RStrip(_)
RStrip(s) ==
    IF s # <<>> /\ s[Len(s)] \in Braces
    THEN RStrip(SubSeq(s, 1, Len(s) - 1))
    ELSE s

IsHyphen(c) == c = "-"

NotHyphen(c) == ~IsHyphen(c)

\* hex.strip('{}').replace('-', '')
HexDigitsOf(s) == SelectSeq(RStrip(LStrip(s)), NotHyphen)

\* UUID(...) does not raise ValueError.
IsUUID(s) ==
    /\ Len(HexDigitsOf(s)) = HexLen
    /\ \A i \in 1..HexLen : HexDigitsOf(s)[i] \in HexLower \cup HexUpper

\* The UUID value: the number int(hex, 16), written as its lower-case digits.
UUID(s) == [i \in 1..HexLen |-> Lower(HexDigitsOf(s)[i])]

----------------------------------------------------------------------------
(* Identifiers and reference strings                                       *)

Rep(c) == [i \in 1..HexLen |-> c]

\* The hyphenated text str(uuid) gives for the identifier whose digits are
\* all c (groups scaled with HexLen).
Canonical(c) ==
    [i \in 1..2 |-> c] \o <<"-">> \o <<c>> \o <<"-">> \o
    [i \in 1..(HexLen - 3) |-> c]

U1 == <<"U1">>

U2 == <<"U2">>

W1 == <<"W1">>

W2 == <<"W2">>

Users == {U1, U2}

Workspaces == {W1, W2}

IdA == Rep("a")

IdB == Rep("b")

IdC == Rep("c")

IdD == Rep("d")

IdE == Rep("e")

Ver1 == Rep("1")

Ver2 == Rep("2")

Ver3 == Rep("3")

Ver4 == Rep("4")

Ver5 == Rep("5")

Ver9 == Rep("9")

NameAlpha == <<"a", "l", "p", "h", "a">>

NameDup == <<"d", "u", "p">>

NameV1 == <<"v", "1">>

\* Texts that are identifiers: canonical, upper case without hyphens, braced.
RefCanonA == Canonical("a")

RefUpperB == Rep("B")

RefBraceE == <<"{">> \o Rep("e") \o <<"}">>

\* Hexadecimal but too short, and of the right length but not hexadecimal:
\* names, and names of nothing in the directory.
RefShortHex == <<"a", "b">>

RefNotHex == Rep("g")

ModelRefs == {RefCanonA, RefUpperB, RefBraceE, RefShortHex,
              NameAlpha, NameDup}

RefCanon1 == Canonical("1")

RefBrace9 == <<"{">> \o Rep("9") \o <<"}">>

VersionRefs == {RefCanon1, RefBrace9, RefNotHex, NameV1, NameDup}

----------------------------------------------------------------------------
(* The directory behind Client().get_model / Client().get_model_version    *)

\* Registered models.  One model is named by a text that is an identifier.
ModelsBefore ==
    { [id |-> IdA, name |-> NameAlpha],
      [id |-> IdB, name |-> NameDup],
      [id |-> IdC, name |-> NameDup],
      [id |-> IdD, name |-> RefUpperB] }

\* The same models after two of them were renamed: NameAlpha now names IdC
\* instead of IdA, and NameDup names IdB alone.
ModelsAfter ==
    { [id |-> IdA, name |-> RefShortHex],
      [id |-> IdB, name |-> NameDup],
      [id |-> IdC, name |-> NameAlpha],
      [id |-> IdD, name |-> RefUpperB] }

\* The directory as it is now.
Models == IF renamed THEN ModelsAfter ELSE ModelsBefore

\* Registered model versions, each inside one model.
Versions ==
    { [id |-> Ver1, model |-> IdA, name |-> NameV1],
      [id |-> Ver2, model |-> IdB, name |-> NameV1],
      [id |-> Ver3, model |-> IdA, name |-> NameDup],
      [id |-> Ver4, model |-> IdA, name |-> NameDup],
      [id |-> Ver5, model |-> IdA, name |-> RefCanon1] }

\* Outcome of one lookup: the identifier, or the error that is raised.
LookupOutcome(matches) ==
    IF matches = {} THEN [id |-> None, err |-> "NotFoundError"]
    ELSE IF Cardinality(matches) > 1
         THEN [id |-> None, err |-> "AmbiguousReferenceError"]
         ELSE [id |-> CHOOSE m \in matches : TRUE, err |-> NoError]

ModelMatches(name) == {m \in Models : m.name = name}

\* Versions are looked up inside the model that is passed; no version lives
\* in the model None.
VersionMatches(model, name) ==
    {v \in Versions : v.model = model /\ v.name = name}

get_model(name) ==
    LookupOutcome({m.id : m \in ModelMatches(name)})

get_model_version(model, name) ==
    LookupOutcome({v.id : v \in VersionMatches(model, name)})

----------------------------------------------------------------------------
(* Rows and queries                                                        *)

FilterKinds == {"UserScopedFilter", "WorkspaceScopedFilter",
                "ShareableFilter", "ModelScopedFilter",
                "ModelVersionScopedFilter"}

\* Classes that declare scope_user, scope_workspace, _model_id.
HasUserScope == {"UserScopedFilter", "ShareableFilter"}

HasWorkspaceScope == FilterKinds \ {"UserScopedFilter"}

HasModelScope == {"ModelScopedFilter", "ModelVersionScopedFilter"}

\* Every row a table can hold, by the columns the filters read.
Resources ==
    [user_id : Users,
     workspace_id : Workspaces \cup {None},
     is_shared : BOOLEAN,
     model_id : {None, IdA, IdB},
     model_version_id : {None, Ver1}]

\* Incoming queries: the whole table, or a table already restricted.
BaseQueries ==
    { Resources,
      {r \in Resources : r.is_shared /\ r.workspace_id # W2} }

\* column == value as SQLAlchemy renders it: IS NULL for None, else equality,
\* which no NULL column satisfies.
SqlEq(column, value) ==
    IF value = None THEN column = None
    ELSE column # None /\ column = value

\* BaseFilter.apply_filter: the generated column filters, none of which is a
\* scope field.
BaseFilter_apply_filter(query) == query

\* Variant: the shared clause of ShareableFilter copied into the user scope.
UserScopedFilter_apply_filter_OrShared(su, query) ==
    LET q == BaseFilter_apply_filter(query)
        scope_filter(r) == \/ SqlEq(r.user_id, su)
                           \/ r.is_shared = TRUE
    IN  IF su # None THEN {r \in q : scope_filter(r)} ELSE q

UserScopedFilter_apply_filter(su, query) ==
    LET q == BaseFilter_apply_filter(query)
        scope_filter(r) == SqlEq(r.user_id, su)
    IN  IF su # None THEN {r \in q : scope_filter(r)} ELSE q

\* Variant: the scope clause is put on a fresh select of the table, so what
\* the incoming query already restricted is lost.
WorkspaceScopedFilter_apply_filter_FreshSelect(sw, query) ==
    LET q == BaseFilter_apply_filter(query)
        scope_filter(r) == \/ SqlEq(r.workspace_id, sw)
                           \/ r.workspace_id = None
    IN  IF sw # None THEN {r \in Resources : scope_filter(r)} ELSE q

WorkspaceScopedFilter_apply_filter(sw, query) ==
    LET q == BaseFilter_apply_filter(query)
        scope_filter(r) == \/ SqlEq(r.workspace_id, sw)
                           \/ r.workspace_id = None
    IN  IF sw # None THEN {r \in q : scope_filter(r)} ELSE q

\* Variant: the is_shared clause left out of the or_.
ShareableFilter_apply_filter_OwnerOnly(su, sw, query) ==
    LET q == WorkspaceScopedFilter_apply_filter(sw, query)
        scope_filter(r) == SqlEq(r.user_id, su)
    IN  IF su # None THEN {r \in q : scope_filter(r)} ELSE q

\* Variant: is_shared is OR-ed with the whole scope, workspace included.
ShareableFilter_apply_filter_SharedAnywhere(su, sw, query) ==
    LET q == WorkspaceScopedFilter_apply_filter(sw, query)
        owned(r) == SqlEq(r.user_id, su)
    IN  IF su # None
        THEN {r \in q : owned(r)}
                \cup {r \in BaseFilter_apply_filter(query) : r.is_shared = TRUE}
        ELSE q

ShareableFilter_apply_filter(su, sw, query) ==
    LET q == WorkspaceScopedFilter_apply_filter(sw, query)
        scope_filter(r) == \/ SqlEq(r.user_id, su)
                           \/ r.is_shared = TRUE
    IN  IF su # None THEN {r \in q : scope_filter(r)} ELSE q

ModelScopedFilter_apply_filter(sw, mid, query) ==
    LET q == WorkspaceScopedFilter_apply_filter(sw, query)
        clause(r) == SqlEq(r.model_id, mid)
    IN  IF mid # None THEN {r \in q : clause(r)} ELSE q

ModelVersionScopedFilter_apply_filter(sw, mid, mvid, query) ==
    LET q == ModelScopedFilter_apply_filter(sw, mid, query)
        clause(r) == SqlEq(r.model_version_id, mvid)
    IN  {r \in q : clause(r)}

\* Variant: the model is resolved again when the filter is applied, by the
\* name it had when the scope was set.
apply_filter_Reresolve(k, su, sw, mid, mvid, query) ==
    LET named == {m \in ModelsBefore : m.id = mid}
        again == IF named = {} THEN mid
                 ELSE get_model((CHOOSE m \in named : TRUE).name).id
    IN  CASE k = "UserScopedFilter" -> UserScopedFilter_apply_filter(su, query)
          [] k = "WorkspaceScopedFilter" ->
                WorkspaceScopedFilter_apply_filter(sw, query)
          [] k = "ShareableFilter" ->
                ShareableFilter_apply_filter(su, sw, query)
          [] k = "ModelScopedFilter" ->
                ModelScopedFilter_apply_filter(sw, again, query)
          [] k = "ModelVersionScopedFilter" ->
                ModelVersionScopedFilter_apply_filter(sw, again, mvid, query)

\* self.apply_filter(query, table) by the class of self.
apply_filter(k, su, sw, mid, mvid, query) ==
    CASE k = "UserScopedFilter" -> UserScopedFilter_apply_filter(su, query)
      [] k = "WorkspaceScopedFilter" ->
            WorkspaceScopedFilter_apply_filter(sw, query)
      [] k = "ShareableFilter" -> ShareableFilter_apply_filter(su, sw, query)
      [] k = "ModelScopedFilter" ->
            ModelScopedFilter_apply_filter(sw, mid, query)
      [] k = "ModelVersionScopedFilter" ->
            ModelVersionScopedFilter_apply_filter(sw, mid, mvid, query)

----------------------------------------------------------------------------
(* set_scope_model / set_scope_model_version as functions of their input   *)

\* What one call does: the attribute it assigns (assigned = FALSE when the
\* call raised before the assignment), the exception, the lookups it made.
\* Variant: the name lookup is tried before the UUID parse.
set_scope_model_LookupFirst(model_name_or_id) ==
    LET found == get_model(model_name_or_id)
    IN  IF found.err = NoError
        THEN [assigned |-> TRUE, id |-> found.id, err |-> NoError,
              lookups |-> 1]
        ELSE IF IsUUID(model_name_or_id)
        THEN [assigned |-> TRUE, id |-> UUID(model_name_or_id),
              err |-> NoError, lookups |-> 1]
        ELSE [assigned |-> FALSE, id |-> None, err |-> found.err,
              lookups |-> 1]

\* Variant: of several models with the name, the first is taken.
set_scope_model_PickFirst(model_name_or_id) ==
    IF IsUUID(model_name_or_id)
    THEN [assigned |-> TRUE, id |-> UUID(model_name_or_id),
          err |-> NoError, lookups |-> 0]
    ELSE LET matches == ModelMatches(model_name_or_id)
         IN  IF matches = {}
             THEN [assigned |-> FALSE, id |-> None,
                   err |-> "NotFoundError", lookups |-> 1]
             ELSE [assigned |-> TRUE,
                   id |-> (CHOOSE m \in matches : TRUE).id,
                   err |-> NoError, lookups |-> 1]

\* Variant: the attribute is cleared before the lookup, so a failed lookup
\* loses the model that was set before.
set_scope_model_ClearOnFail(model_name_or_id) ==
    IF IsUUID(model_name_or_id)
    THEN [assigned |-> TRUE, id |-> UUID(model_name_or_id),
          err |-> NoError, lookups |-> 0]
    ELSE LET found == get_model(model_name_or_id)
         IN  [assigned |-> TRUE, id |-> found.id,
              err |-> found.err, lookups |-> 1]

set_scope_model(model_name_or_id) ==
    IF IsUUID(model_name_or_id)
    THEN [assigned |-> TRUE, id |-> UUID(model_name_or_id),
          err |-> NoError, lookups |-> 0]
    ELSE LET found == get_model(model_name_or_id)
         IN  [assigned |-> found.err = NoError, id |-> found.id,
              err |-> found.err, lookups |-> 1]

\* Variant: a failed lookup is tried a second time.
set_scope_model_version_Retry(mid, model_version_name_or_id) ==
    IF IsUUID(model_version_name_or_id)
    THEN [assigned |-> TRUE, id |-> UUID(model_version_name_or_id),
          err |-> NoError, lookups |-> 0]
    ELSE LET found == get_model_version(mid, model_version_name_or_id)
         IN  [assigned |-> found.err = NoError, id |-> found.id,
              err |-> found.err,
              lookups |-> IF found.err = NoError THEN 1 ELSE 2]

\* Variant: the lookup error is swallowed and the unresolved name is kept,
\* to be resolved when the filter is applied.
set_scope_model_version_Deferred(mid, model_version_name_or_id) ==
    IF IsUUID(model_version_name_or_id)
    THEN [assigned |-> TRUE, id |-> UUID(model_version_name_or_id),
          err |-> NoError, lookups |-> 0]
    ELSE LET found == get_model_version(mid, model_version_name_or_id)
         IN  IF found.err = "NotFoundError"
             THEN [assigned |-> TRUE, id |-> model_version_name_or_id,
                   err |-> NoError, lookups |-> 1]
             ELSE [assigned |-> found.err = NoError, id |-> found.id,
                   err |-> found.err, lookups |-> 1]

\* Variant: an identifier is checked against the registered versions, and
\* one that belongs to none is refused.
set_scope_model_version_ExistenceChecked(mid, model_version_name_or_id) ==
    IF IsUUID(model_version_name_or_id)
    THEN IF \E v \in Versions : v.id = UUID(model_version_name_or_id)
         THEN [assigned |-> TRUE, id |-> UUID(model_version_name_or_id),
               err |-> NoError, lookups |-> 0]
         ELSE [assigned |-> FALSE, id |-> None,
               err |-> "NotFoundError", lookups |-> 0]
    ELSE LET found == get_model_version(mid, model_version_name_or_id)
         IN  [assigned |-> found.err = NoError, id |-> found.id,
              err |-> found.err, lookups |-> 1]

set_scope_model_version(mid, model_version_name_or_id) ==
    IF IsUUID(model_version_name_or_id)
    THEN [assigned |-> TRUE, id |-> UUID(model_version_name_or_id),
          err |-> NoError, lookups |-> 0]
    ELSE LET found == get_model_version(mid, model_version_name_or_id)
         IN  [assigned |-> found.err = NoError, id |-> found.id,
              err |-> found.err, lookups |-> 1]

----------------------------------------------------------------------------
(* The filter object and the calls made on it                              *)

NoCall == [op |-> "new", ref |-> None, err |-> NoError]

\* A newly constructed filter of any of the five classes.
FilterInit ==
    /\ kind \in FilterKinds
    /\ scope_user = None
    /\ scope_workspace = None
    /\ model_id = None
    /\ model_version_id = None
    /\ lookups = 0
    /\ last = NoCall
    /\ base = {}
    /\ result = {}
    /\ renamed = FALSE

\* No deployment was passed to the orchestrator yet.
NoDeployment == [steps |-> <<>>, schedule |-> FALSE]

NoGet == [ret |-> None, err |-> NoError, called |-> FALSE]

OrchIdle ==
    /\ pc = "idle"
    /\ deployment = NoDeployment
    /\ step_index = 0
    /\ orchestrator_run_id = None
    /\ launched = <<>>
    /\ open_logs = {}
    /\ lines_left = 0
    /\ warnings = 0
    /\ issued = <<>>
    /\ lookup_id = None
    /\ got = NoGet

NoRequest == [handler |-> "none", permissions |-> {}, status |-> "none"]

ApiIdle ==
    /\ request = NoRequest
    /\ store_writes = 0

Init ==
    /\ FilterInit
    /\ OrchIdle /\ environ = None
    /\ ApiIdle

SetScopeUser(user_id) ==
    /\ kind \in HasUserScope
    /\ scope_user' = user_id
    /\ last' = [op |-> "set_scope_user", ref |-> user_id, err |-> NoError]
    /\ UNCHANGED <<kind, scope_workspace, model_id, model_version_id,
                   lookups, base, result, renamed>>
    /\ UNCHANGED <<orchVars, apiVars>>

SetScopeWorkspace(workspace_id) ==
    /\ kind \in HasWorkspaceScope
    /\ scope_workspace' = workspace_id
    /\ last' = [op |-> "set_scope_workspace", ref |-> workspace_id,
                err |-> NoError]
    /\ UNCHANGED <<kind, scope_user, model_id, model_version_id,
                   lookups, base, result, renamed>>
    /\ UNCHANGED <<orchVars, apiVars>>

\* Variant: a new model scope drops the model version stored before.
SetScopeModel_ClearsVersion(ref) ==
    LET call == set_scope_model(ref)
    IN  /\ kind \in HasModelScope
        /\ lookups + call.lookups <= MaxLookups
        /\ model_id' = IF call.assigned THEN call.id ELSE model_id
        /\ model_version_id' =
              IF call.assigned THEN None ELSE model_version_id
        /\ lookups' = lookups + call.lookups
        /\ last' = [op |-> "set_scope_model", ref |-> ref, err |-> call.err]
        /\ UNCHANGED <<kind, scope_user, scope_workspace,
                       base, result, renamed>>
        /\ UNCHANGED <<orchVars, apiVars>>

SetScopeModel(ref) ==
    LET call == set_scope_model(ref)
    IN  /\ kind \in HasModelScope
        /\ lookups + call.lookups <= MaxLookups
        /\ model_id' = IF call.assigned THEN call.id ELSE model_id
        /\ lookups' = lookups + call.lookups
        /\ last' = [op |-> "set_scope_model", ref |-> ref, err |-> call.err]
        /\ UNCHANGED <<kind, scope_user, scope_workspace, model_version_id,
                       base, result, renamed>>
        /\ UNCHANGED <<orchVars, apiVars>>

SetScopeModelVersion(ref) ==
    LET call == set_scope_model_version(model_id, ref)
    IN  /\ kind = "ModelVersionScopedFilter"
        /\ lookups + call.lookups <= MaxLookups
        /\ model_version_id' =
              IF call.assigned THEN call.id ELSE model_version_id
        /\ lookups' = lookups + call.lookups
        /\ last' = [op |-> "set_scope_model_version", ref |-> ref,
                    err |-> call.err]
        /\ UNCHANGED <<kind, scope_user, scope_workspace, model_id,
                       base, result, renamed>>
        /\ UNCHANGED <<orchVars, apiVars>>

ApplyFilter(query) ==
    /\ base' = query
    /\ result' = apply_filter(kind, scope_user, scope_workspace, model_id,
                              model_version_id, query)
    /\ last' = [op |-> "apply_filter", ref |-> None, err |-> NoError]
    /\ UNCHANGED <<kind, scope_user, scope_workspace, model_id,
                   model_version_id, lookups, renamed>>
    /\ UNCHANGED <<orchVars, apiVars>>

\* Somebody else renames models in the directory while the filter lives.
RenameModels ==
    /\ ~renamed
    /\ renamed' = TRUE
    /\ last' = [op |-> "rename", ref |-> None, err |-> NoError]
    /\ UNCHANGED <<kind, scope_user, scope_workspace, model_id,
                   model_version_id, lookups, base, result>>
    /\ UNCHANGED <<orchVars, apiVars>>

Next ==
    \/ \E u \in Users : SetScopeUser(u)
    \/ \E w \in Workspaces : SetScopeWorkspace(w)
    \/ \E ref \in ModelRefs : SetScopeModel(ref)
    \/ \E ref \in VersionRefs : SetScopeModelVersion(ref)
    \/ \E query \in BaseQueries : ApplyFilter(query)
    \/ RenameModels

Spec == Init /\ [][Next]_vars

TypeOK ==
    /\ kind \in FilterKinds
    /\ scope_user \in Users \cup {None}
    /\ scope_workspace \in Workspaces \cup {None}
    /\ lookups \in 0..MaxLookups
    /\ result \subseteq base

----------------------------------------------------------------------------
(* ClearMLOrchestrator                                                     *)
(* (src/zenml/integrations/clearml/orchestrators/clearml_orchestrator.py)  *)

\* Longest deployment, longest log stream and number of invocations
\* followed.
MaxSteps == 2

MaxLines == 1

MaxInvocations == 2

StepNames == {"load", "train", "eval"}

\* deployment.step_configurations is a dict: its keys are distinct and are
\* iterated in insertion order.
StepLists ==
    {steps \in UNION {[1..n -> StepNames] : n \in 0..MaxSteps} :
        \A a, b \in DOMAIN steps : a # b => steps[a] # steps[b]}

Deployments == [steps : StepLists, schedule : BOOLEAN]

\* Values uuid4() can return; one more than the invocations followed.
RunIds == {<<n>> : n \in 1..(MaxInvocations + 1)}

Range(f) == {f[x] : x \in DOMAIN f}

\* str(uuid4()): an identifier that was not given before.
uuid4 == RunIds \ Range(issued)

\* Variant: KeyError is let through instead of being turned into RuntimeError.
get_orchestrator_run_id_KeyError(env) ==
    IF env # None
    THEN [ret |-> env, err |-> NoError, called |-> TRUE]
    ELSE [ret |-> None, err |-> "KeyError", called |-> TRUE]

\* os.environ[ENV_ZENML_DOCKER_ORCHESTRATOR_RUN_ID], KeyError turned into
\* RuntimeError.  env is the value of the variable, None when it is unset.
get_orchestrator_run_id(env) ==
    IF env # None
    THEN [ret |-> env, err |-> NoError, called |-> TRUE]
    ELSE [ret |-> None, err |-> "RuntimeError", called |-> TRUE]

GetOrchestratorRunId ==
    /\ got' = get_orchestrator_run_id(environ)
    /\ UNCHANGED <<pc, deployment, step_index, orchestrator_run_id, launched,
                   open_logs, lines_left, warnings, issued, lookup_id,
                   environ>>
    /\ UNCHANGED <<filterVars, apiVars>>

\* Variant: a deployment with a schedule is not run, the method returns after
\* the warning.
Start_ScheduleReturns(d) ==
    /\ pc \in {"idle", "done", "raised"}
    /\ Len(issued) < MaxInvocations
    /\ deployment' = d
    /\ warnings' = IF d.schedule THEN 1 ELSE 0
    /\ \E id \in uuid4 :
          /\ orchestrator_run_id' = id
          /\ issued' = Append(issued, id)
    /\ launched' = <<>>
    /\ open_logs' = {}
    /\ lines_left' = 0
    /\ step_index' = 1
    /\ lookup_id' = None
    /\ pc' = IF d.schedule THEN "done" ELSE "loop"
    /\ UNCHANGED <<environ, got>>
    /\ UNCHANGED <<filterVars, apiVars>>

\* prepare_or_run_pipeline up to the loop: the schedule warning, the docker
\* client, the volumes, the run id and the environment of the containers.
Start(d) ==
    /\ pc \in {"idle", "done", "raised"}
    /\ Len(issued) < MaxInvocations
    /\ deployment' = d
    /\ warnings' = IF d.schedule THEN 1 ELSE 0
    /\ \E id \in uuid4 :
          /\ orchestrator_run_id' = id
          /\ issued' = Append(issued, id)
    /\ launched' = <<>>
    /\ open_logs' = {}
    /\ lines_left' = 0
    /\ step_index' = 1
    /\ lookup_id' = None
    /\ pc' = "loop"
    /\ UNCHANGED <<environ, got>>
    /\ UNCHANGED <<filterVars, apiVars>>

\* Variant: the container is started detached, so the loop goes on to the
\* next step while the logs of this one are still being written.
LaunchStep_Detached ==
    /\ pc \in {"loop", "logs"}
    /\ LET next == IF pc = "logs" THEN step_index + 1 ELSE step_index
       IN  /\ next <= Len(deployment.steps)
           /\ launched' = Append(launched,
                  [step_name |-> deployment.steps[next],
                   run_id |-> orchestrator_run_id])
           /\ open_logs' = open_logs \cup {next}
           /\ step_index' = next
    /\ lines_left' \in 0..MaxLines
    /\ pc' = "logs"
    /\ UNCHANGED <<deployment, orchestrator_run_id, warnings, issued,
                   lookup_id, environ, got>>
    /\ UNCHANGED <<filterVars, apiVars>>

\* Variant: the run id is generated inside the loop, once per step.
LaunchStep_IdPerStep ==
    /\ pc = "loop"
    /\ step_index <= Len(deployment.steps)
    /\ \E id \in RunIds :
          launched' = Append(launched,
              [step_name |-> deployment.steps[step_index], run_id |-> id])
    /\ open_logs' = open_logs \cup {step_index}
    /\ lines_left' \in 0..MaxLines
    /\ pc' = "logs"
    /\ UNCHANGED <<deployment, step_index, orchestrator_run_id, warnings,
                   issued, lookup_id, environ, got>>
    /\ UNCHANGED <<filterVars, apiVars>>

\* One iteration up to docker_client.containers.run(..., stream=True): the
\* container of the step is started with the environment built before the
\* loop, and its log stream is open.
LaunchStep ==
    /\ pc = "loop"
    /\ step_index <= Len(deployment.steps)
    /\ launched' = Append(launched,
           [step_name |-> deployment.steps[step_index],
            run_id |-> orchestrator_run_id])
    /\ open_logs' = open_logs \cup {step_index}
    /\ lines_left' \in 0..MaxLines
    /\ pc' = "logs"
    /\ UNCHANGED <<deployment, step_index, orchestrator_run_id, warnings,
                   issued, lookup_id, environ, got>>
    /\ UNCHANGED <<filterVars, apiVars>>

\* containers.run raises (no image, no daemon): the exception leaves
\* prepare_or_run_pipeline.
DockerError ==
    /\ pc = "loop"
    /\ step_index <= Len(deployment.steps)
    /\ pc' = "raised"
    /\ UNCHANGED <<deployment, step_index, orchestrator_run_id, launched,
                   open_logs, lines_left, warnings, issued, lookup_id,
                   environ, got>>
    /\ UNCHANGED <<filterVars, apiVars>>

\* for line in logs: logger.info(...)
ReadLogLine ==
    /\ pc = "logs"
    /\ lines_left > 0
    /\ lines_left' = lines_left - 1
    /\ UNCHANGED <<pc, deployment, step_index, orchestrator_run_id, launched,
                   open_logs, warnings, issued, lookup_id, environ, got>>
    /\ UNCHANGED <<filterVars, apiVars>>

\* The stream is exhausted: the container has exited and the loop takes the
\* next item.
EndOfLogs ==
    /\ pc = "logs"
    /\ lines_left = 0
    /\ open_logs' = open_logs \ {step_index}
    /\ step_index' = step_index + 1
    /\ pc' = "loop"
    /\ UNCHANGED <<deployment, orchestrator_run_id, launched, lines_left,
                   warnings, issued, lookup_id, environ, got>>
    /\ UNCHANGED <<filterVars, apiVars>>

\* After the loop: the run is looked up by the orchestrator run id.
Finish ==
    /\ pc = "loop"
    /\ step_index > Len(deployment.steps)
    /\ lookup_id' = orchestrator_run_id
    /\ pc' = "done"
    /\ UNCHANGED <<deployment, step_index, orchestrator_run_id, launched,
                   open_logs, lines_left, warnings, issued, environ, got>>
    /\ UNCHANGED <<filterVars, apiVars>>

\* The filter of the other specification, never touched here.
FilterIdle ==
    /\ FilterInit
    /\ kind = "UserScopedFilter"

OrchInit ==
    /\ FilterIdle
    /\ OrchIdle /\ environ \in {None} \cup RunIds
    /\ ApiIdle

OrchNext ==
    \/ \E d \in Deployments : Start(d)
    \/ LaunchStep
    \/ DockerError
    \/ ReadLogLine
    \/ EndOfLogs
    \/ Finish
    \/ GetOrchestratorRunId

OrchSpec == OrchInit /\ [][OrchNext]_vars

----------------------------------------------------------------------------
(* Routers (src/zenml/zen_server/routers/models_endpoints.py and           *)
(* model_versions_endpoints.py)                                            *)

\* Writes to the store followed in one behaviour.
MaxWrites == 2

\* PermissionType members the handlers ask for.
PermissionTypes == {"READ", "WRITE"}

ModelsRoutes ==
    { [handler |-> "models.list_models", scope |-> "READ",
       store_call |-> "list_models"],
      [handler |-> "models.get_model", scope |-> "READ",
       store_call |-> "get_model"],
      [handler |-> "models.update_model", scope |-> "WRITE",
       store_call |-> "update_model"],
      [handler |-> "models.delete_model", scope |-> "WRITE",
       store_call |-> "delete_model"],
      [handler |-> "models.list_model_versions", scope |-> "READ",
       store_call |-> "list_model_versions"] }

ModelVersionsRoutes ==
    { [handler |-> "model_versions.list_model_versions", scope |-> "READ",
       store_call |-> "list_model_versions"],
      [handler |-> "model_versions.get_model_version", scope |-> "READ",
       store_call |-> "get_model_version"],
      [handler |-> "model_versions.update_model_version", scope |-> "WRITE",
       store_call |-> "update_model_version"],
      [handler |-> "model_versions.delete_model_version", scope |-> "WRITE",
       store_call |-> "delete_model_version"],
      [handler |-> "model_versions.list_model_version_artifact_links",
       scope |-> "READ",
       store_call |-> "list_model_version_artifact_links"],
      [handler |-> "model_versions.delete_model_version_artifact_link",
       scope |-> "WRITE",
       store_call |-> "delete_model_version_artifact_link"],
      [handler |-> "model_versions.list_model_version_pipeline_run_links",
       scope |-> "READ",
       store_call |-> "list_model_version_pipeline_run_links"],
      [handler |-> "model_versions.delete_model_version_pipeline_run_link",
       scope |-> "WRITE",
       store_call |-> "delete_model_version_pipeline_run_link"] }

\* Variant: the decorator of list_model_version_artifact_links copied onto
\* the delete handler below it, READ scope included.
Endpoints_DeleteLinkWithRead ==
    {e \in ModelsRoutes \cup ModelVersionsRoutes :
        e.store_call # "delete_model_version_artifact_link"}
    \cup { [handler |-> "model_versions.delete_model_version_artifact_link",
            scope |-> "READ",
            store_call |-> "delete_model_version_artifact_link"] }

\* Every handler of the two routers: the scope in its Security(authorize,
\* scopes=[...]) and the store method it calls.
Endpoints == ModelsRoutes \cup ModelVersionsRoutes

\* The store methods that change the store.
StoreWrites ==
    {"update_model", "delete_model", "update_model_version",
     "delete_model_version", "delete_model_version_artifact_link",
     "delete_model_version_pipeline_run_link"}

\* Security(authorize, scopes): the caller holds every scope asked for.
authorize(permissions, scopes) == scopes \subseteq permissions

\* A request reaches handler e from a caller holding permissions: it is
\* refused by authorize, or the handler makes its one store call.
Request(e, permissions) ==
    LET allowed == authorize(permissions, {e.scope})
        writes == IF allowed /\ e.store_call \in StoreWrites THEN 1 ELSE 0
    IN  /\ store_writes + writes <= MaxWrites
        /\ request' = [handler |-> e.handler, permissions |-> permissions,
                       status |-> IF allowed THEN "ok" ELSE "forbidden"]
        /\ store_writes' = store_writes + writes
        /\ UNCHANGED <<filterVars, orchVars>>

ApiInit ==
    /\ FilterIdle
    /\ OrchIdle /\ environ = None
    /\ ApiIdle

ApiNext ==
    \E e \in Endpoints, permissions \in SUBSET PermissionTypes :
        Request(e, permissions)

ApiSpec == ApiInit /\ [][ApiNext]_vars

----------------------------------------------------------------------------
(* Properties                                                              *)

Applied == last.op = "apply_filter"

ModelSetOps == {"set_scope_model", "set_scope_model_version"}

\* C1: on a ShareableFilter with scope_user = U and no workspace scope,
\* apply_filter keeps a row of the incoming query iff its owner is U or it is
\* shared.
C1_ShareableUserScope ==
    (Applied /\ kind = "ShareableFilter" /\ scope_user # None
        /\ scope_workspace = None)
    => result = {r \in base : r.user_id = scope_user \/ r.is_shared}

\* alice (U1) lists the whole table: a shared row of U2 is visible, an
\* unshared row of U2 is not, an unshared row of U1 is.
C1_Witness ==
    /\ Applied /\ kind = "ShareableFilter"
    /\ scope_user = U1 /\ scope_workspace = None /\ base = Resources
    /\ \E r \in result : r.user_id = U2 /\ r.is_shared
    /\ \E r \in result : r.user_id = U1 /\ ~r.is_shared
    /\ \E r \in base \ result : r.user_id = U2 /\ ~r.is_shared

\* C2: on a UserScopedFilter with scope_user = U, apply_filter keeps a row of
\* the incoming query iff its owner is U, whatever its is_shared flag.
C2_UserScopeOwnerOnly ==
    (Applied /\ kind = "UserScopedFilter" /\ scope_user # None)
    => result = {r \in base : r.user_id = scope_user}

C2_Witness ==
    /\ Applied /\ kind = "UserScopedFilter"
    /\ scope_user = U1 /\ base = Resources
    /\ \E r \in result : r.user_id = U1 /\ r.is_shared
    /\ \E r \in result : r.user_id = U1 /\ ~r.is_shared
    /\ \E r \in base \ result : r.user_id = U2 /\ r.is_shared

\* C3: on every class with a workspace scope, with scope_workspace = W and no
\* other scope set, apply_filter keeps a row of the incoming query iff its
\* workspace is W or it has no workspace.
C3_WorkspaceScope ==
    (Applied /\ kind \in HasWorkspaceScope /\ scope_workspace # None
        /\ scope_user = None /\ model_id = None /\ model_version_id = None)
    => result = {r \in base : r.workspace_id = scope_workspace
                              \/ r.workspace_id = None}

\* C4: a filter on which no scope was set returns the incoming query
\* unchanged.
C4_IdentityLaw ==
    (Applied /\ scope_user = None /\ scope_workspace = None
        /\ model_id = None /\ model_version_id = None)
    => result = base

\* C5: set_scope_model_version on a filter whose model scope was never set
\* fails with PreconditionError and stores no model version id.  Stated for
\* the references that are identifiers, where the directory has no say.
C5_VersionNeedsModel ==
    (last.op = "set_scope_model_version" /\ IsUUID(last.ref)
        /\ model_id = None)
    => (last.err = "PreconditionError" /\ model_version_id = None)

\* Two rows that agree on every column but col.
DifferOnlyIn(r1, r2, col) ==
    /\ r1[col] # r2[col]
    /\ \A c \in DOMAIN r1 : c # col => r1[c] = r2[c]

\* The applied predicate restricts column col: it tells apart two rows of
\* the incoming query that differ in nothing else.
Restricts(col) ==
    \E r1 \in result, r2 \in base \ result : DifferOnlyIn(r1, r2, col)

\* C6: with model scope M only rows of model M are kept, with model version
\* scope V only rows of version V, and model_version_id is never restricted
\* without model_id being restricted too.
C6_ModelAndVersionScope ==
    Applied =>
        /\ model_id # None => \A r \in result : r.model_id = model_id
        /\ model_version_id # None =>
              \A r \in result : r.model_version_id = model_version_id
        /\ (base = Resources /\ Restricts("model_version_id"))
              => Restricts("model_id")

\* C7: a reference that parses as an identifier is stored as that identifier
\* and no directory lookup is made.
C7_IdentifierPassThrough ==
    [][ /\ (last'.op = "set_scope_model" /\ IsUUID(last'.ref))
           => (lookups' = lookups /\ last'.err = NoError
               /\ model_id' = UUID(last'.ref))
        /\ (last'.op = "set_scope_model_version" /\ IsUUID(last'.ref))
           => (lookups' = lookups /\ last'.err = NoError
               /\ model_version_id' = UUID(last'.ref)) ]_vars

\* The text that names model IdD is itself an identifier: IdB is stored, and
\* the directory was never asked.
C7_Witness ==
    /\ last.op = "set_scope_model" /\ last.ref = RefUpperB
    /\ \E m \in Models : m.name = RefUpperB /\ m.id = IdD
    /\ model_id = IdB /\ lookups = 0 /\ ~renamed

\* C8: a reference that does not parse as an identifier costs exactly one
\* directory lookup, and on success the identifier the lookup returned is
\* stored.
C8_OneLookupPerName ==
    [][ /\ (last'.op = "set_scope_model" /\ ~IsUUID(last'.ref))
           => /\ lookups' = lookups + 1
              /\ last'.err = NoError
                    => model_id' = get_model(last'.ref).id
        /\ (last'.op = "set_scope_model_version" /\ ~IsUUID(last'.ref))
           => /\ lookups' = lookups + 1
              /\ last'.err = NoError
                    => model_version_id' =
                          get_model_version(model_id, last'.ref).id ]_vars

C8_Witness ==
    /\ last.op = "set_scope_model_version" /\ last.ref = NameV1
    /\ last.err = NoError
    /\ model_id = IdB /\ model_version_id = Ver2 /\ lookups = 2

\* C9: a name that matches more than one entity makes the call fail with
\* AmbiguousReferenceError, and no identifier is stored.
C9_AmbiguousNameFails ==
    [][ /\ (last'.op = "set_scope_model" /\ ~IsUUID(last'.ref)
               /\ Cardinality(ModelMatches(last'.ref)) > 1)
           => (last'.err = "AmbiguousReferenceError"
               /\ model_id' = model_id)
        /\ (last'.op = "set_scope_model_version" /\ ~IsUUID(last'.ref)
               /\ Cardinality(VersionMatches(model_id, last'.ref)) > 1)
           => (last'.err = "AmbiguousReferenceError"
               /\ model_version_id' = model_version_id) ]_vars

C9_Witness ==
    /\ last.op = "set_scope_model" /\ last.ref = NameDup
    /\ last.err = "AmbiguousReferenceError"
    /\ model_id = None /\ lookups = 1 /\ ~renamed

\* C10: a name that matches no entity makes that very call fail with
\* NotFoundError: no identifier is stored for a later apply_filter to trip
\* over, and no query runs in the step.
C10_NotFoundAtSetTime ==
    [][ /\ (last'.op = "set_scope_model" /\ ~IsUUID(last'.ref)
               /\ ModelMatches(last'.ref) = {})
           => (last'.err = "NotFoundError" /\ model_id' = model_id
               /\ base' = base /\ result' = result)
        /\ (last'.op = "set_scope_model_version" /\ ~IsUUID(last'.ref)
               /\ VersionMatches(model_id, last'.ref) = {})
           => (last'.err = "NotFoundError"
               /\ model_version_id' = model_version_id
               /\ base' = base /\ result' = result)
        /\ last'.op = "apply_filter" => last'.err = NoError ]_vars

C10_Witness ==
    /\ last.op = "set_scope_model_version" /\ last.ref = RefNotHex
    /\ last.err = "NotFoundError"
    /\ model_id # None /\ model_version_id = None
    /\ base = {} /\ result = {}

ScopeSetOps == {"set_scope_user", "set_scope_workspace",
                "set_scope_model", "set_scope_model_version"}

\* C11: a set_scope_* call that fails leaves scope_user, scope_workspace, the
\* model id and the model version id as they were before the call.
C11_FailedCallChangesNothing ==
    [][ (last'.op \in ScopeSetOps /\ last'.err # NoError)
        => UNCHANGED <<scope_user, scope_workspace, model_id,
                       model_version_id>> ]_vars

\* A lookup failed on a filter that already had a model and a version: both
\* are still there.
C11_Witness ==
    /\ last.op = "set_scope_model" /\ last.err # NoError
    /\ scope_workspace = W1 /\ model_id = IdA /\ model_version_id = Ver1

\* C12: apply_filter only ever narrows the incoming query: what it returns
\* is part of the incoming query, and every row it returns satisfies the
\* clause of every scope that is set (owner or shared, workspace or global,
\* model, model version).
C12_AndComposition ==
    Applied =>
        /\ result \subseteq base
        /\ scope_user # None =>
              \A r \in result :
                  \/ r.user_id = scope_user
                  \/ (kind = "ShareableFilter" /\ r.is_shared)
        /\ scope_workspace # None =>
              \A r \in result : \/ r.workspace_id = scope_workspace
                                \/ r.workspace_id = None
        /\ model_id # None => \A r \in result : r.model_id = model_id
        /\ model_version_id # None =>
              \A r \in result : r.model_version_id = model_version_id

\* Two scopes on a query that was already restricted.
C12_Witness ==
    /\ Applied /\ kind = "ShareableFilter"
    /\ scope_user = U1 /\ scope_workspace = W2
    /\ base # Resources /\ result # {} /\ result # base

\* The predicate a filter holds in its fields, row by row; the directory is
\* not part of it.
StoredPredicate(r) ==
    /\ scope_user # None =>
          \/ r.user_id = scope_user
          \/ (kind = "ShareableFilter" /\ r.is_shared)
    /\ scope_workspace # None =>
          \/ r.workspace_id = scope_workspace
          \/ r.workspace_id = None
    /\ model_id # None => r.model_id = model_id
    /\ kind = "ModelVersionScopedFilter" =>
          r.model_version_id = model_version_id

\* C13: in every state of the filter apply_filter returns without raising,
\* asks the directory nothing and selects by the identifiers stored in the
\* fields, whatever the directory says by then.
C13_ApplyIsPure ==
    [][ last'.op = "apply_filter"
        => /\ last'.err = NoError
           /\ lookups' = lookups
           /\ renamed' = renamed
           /\ result' = {r \in base' : StoredPredicate(r)} ]_vars

\* NameAlpha was resolved to IdA; the name now belongs to IdC, and the rows
\* of IdA are still the ones selected.
C13_Witness ==
    /\ Applied /\ kind = "ModelScopedFilter" /\ renamed
    /\ model_id = IdA /\ lookups = 1
    /\ get_model(NameAlpha).id = IdC
    /\ result # {} /\ \A r \in result : r.model_id = IdA

\* C16: on a ShareableFilter with scope_user = U and scope_workspace = W a
\* row is kept iff (its workspace is W or it has none) and (its owner is U
\* or it is shared).
C16_SharingStaysInWorkspace ==
    (Applied /\ kind = "ShareableFilter" /\ scope_user # None
        /\ scope_workspace # None)
    => result = {r \in base :
                    /\ (r.workspace_id = scope_workspace
                        \/ r.workspace_id = None)
                    /\ (r.user_id = scope_user \/ r.is_shared)}

\* A shared row of the other workspace is not visible; a shared row of
\* another user in this workspace is.
C16_Witness ==
    /\ Applied /\ kind = "ShareableFilter"
    /\ scope_user = U1 /\ scope_workspace = W1 /\ base = Resources
    /\ \E r \in base \ result : r.is_shared /\ r.workspace_id = W2
    /\ \E r \in result : r.is_shared /\ r.user_id = U2
                         /\ r.workspace_id = W1

\* C20: once a model and a registered model version are stored, the version
\* is a version of the stored model.
C20_VersionInsideModel ==
    (model_id # None /\ \E v \in Versions : v.id = model_version_id)
    => \E v \in Versions : v.id = model_version_id /\ v.model = model_id

LaunchedNames == [k \in DOMAIN launched |-> launched[k].step_name]

C15_RunIdFromEnvironment ==
    /\ [](got.called =>
            /\ environ # None => (got.ret = environ /\ got.err = NoError)
            /\ environ = None
                  => (got.ret = None /\ got.err = "RuntimeError"))
    /\ [][environ' = environ]_vars

C15_Witness ==
    /\ got.called /\ environ = None /\ got.err = "RuntimeError"

\* C17: one run id is generated per invocation, before the first step; every
\* container of the invocation gets it, the run is looked up by it, and no
\* two invocations have the same one.
C17_OneRunIdPerInvocation ==
    /\ pc # "idle" =>
          (orchestrator_run_id # None
           /\ orchestrator_run_id = issued[Len(issued)])
    /\ \A k \in DOMAIN launched : launched[k].run_id = orchestrator_run_id
    /\ pc = "done" => lookup_id = orchestrator_run_id
    /\ \A a, b \in DOMAIN issued : a # b => issued[a] # issued[b]

C17_Witness ==
    /\ pc = "done" /\ Len(issued) = 2 /\ Len(launched) = 2
    /\ lookup_id = issued[2] /\ issued[1] # issued[2]

\* C18: a deployment with a schedule is run at once like the same deployment
\* without one: one warning is logged (none without a schedule) and the
\* steps started are the steps of the deployment, in order.
C18_ScheduleIgnored ==
    pc # "idle" =>
        /\ warnings = IF deployment.schedule THEN 1 ELSE 0
        /\ (deployment.schedule /\ pc = "done")
              => /\ Len(launched) = Len(deployment.steps)
                 /\ \A k \in DOMAIN launched :
                       launched[k].step_name = deployment.steps[k]

C18_Witness ==
    /\ pc = "done" /\ deployment.schedule /\ warnings = 1
    /\ Len(deployment.steps) = 2 /\ Len(launched) = 2

StoreCallOf(handler) ==
    (CHOOSE e \in ModelsRoutes \cup ModelVersionsRoutes :
        e.handler = handler).store_call

\* C19: a handler that changes the store is reached only by a caller holding
\* WRITE, and a list/get handler only by a caller holding READ; each asks
\* for that one scope and no other.
C19_WritesNeedWriteScope ==
    /\ [][store_writes' # store_writes
             => "WRITE" \in request'.permissions]_vars
    /\ [](request.status # "none" =>
            IF StoreCallOf(request.handler) \in StoreWrites
            THEN request.status = "ok" <=> "WRITE" \in request.permissions
            ELSE request.status = "ok" <=> "READ" \in request.permissions)

\* A caller holding READ alone was refused a delete after a write of another
\* caller went through.
C19_Witness ==
    /\ request.handler = "model_versions.delete_model_version_artifact_link"
    /\ request.permissions = {"READ"} /\ request.status = "forbidden"
    /\ store_writes = 1

\* Identifiers of the registered models and model versions.
ModelIds == {m.id : m \in Models}

VersionIds == {v.id : v \in Versions}

\* C21: a reference that parses as an identifier of no registered model
\* (model version) is accepted by set_scope_model (set_scope_model_version)
\* without an error and stored; a filter that holds such an identifier then
\* returns no row that carries the identifier of a registered model.  The
\* rows are those of Resources, whose model and model version columns refer
\* to registered entities.
C21_UnknownIdentifierAccepted ==
    /\ [][ /\ (last'.op = "set_scope_model" /\ IsUUID(last'.ref)
                  /\ UUID(last'.ref) \notin ModelIds)
              => (last'.err = NoError /\ model_id' = UUID(last'.ref))
           /\ (last'.op = "set_scope_model_version" /\ IsUUID(last'.ref)
                  /\ UUID(last'.ref) \notin VersionIds)
              => (last'.err = NoError
                  /\ model_version_id' = UUID(last'.ref)) ]_vars
    /\ [](Applied =>
            /\ (model_id # None /\ model_id \notin ModelIds)
                  => \A r \in result : r.model_id \notin ModelIds
            /\ (model_version_id # None
                    /\ model_version_id \notin VersionIds)
                  => \A r \in result : r.model_id \notin ModelIds)

\* The version of nothing was accepted inside a registered model, and the
\* whole table, rows of that model included, gives no row.
C21_Witness ==
    /\ Applied /\ kind = "ModelVersionScopedFilter"
    /\ model_id = IdA /\ model_version_id = Ver9 /\ lookups = 0
    /\ base = Resources /\ result = {}
    /\ \E r \in base : r.model_id = IdA

\* C22: set_scope_user changes scope_user alone, set_scope_workspace
\* scope_workspace alone, set_scope_model the model id alone and
\* set_scope_model_version the model version id alone; a call that succeeds
\* stores the value of its own argument whatever was stored before; and
\* apply_filter changes none of the four.
C22_OwnDimensionOnly ==
    [][ /\ last'.op = "set_scope_user"
           => /\ scope_user' = last'.ref
              /\ UNCHANGED <<scope_workspace, model_id, model_version_id>>
        /\ last'.op = "set_scope_workspace"
           => /\ scope_workspace' = last'.ref
              /\ UNCHANGED <<scope_user, model_id, model_version_id>>
        /\ last'.op = "set_scope_model"
           => /\ UNCHANGED <<scope_user, scope_workspace, model_version_id>>
              /\ last'.err = NoError
                    => model_id' = IF IsUUID(last'.ref) THEN UUID(last'.ref)
                                   ELSE get_model(last'.ref).id
        /\ last'.op = "set_scope_model_version"
           => /\ UNCHANGED <<scope_user, scope_workspace, model_id>>
              /\ last'.err = NoError
                    => model_version_id' =
                          IF IsUUID(last'.ref) THEN UUID(last'.ref)
                          ELSE get_model_version(model_id, last'.ref).id
        /\ last'.op = "apply_filter"
           => UNCHANGED <<scope_user, scope_workspace, model_id,
                          model_version_id>> ]_vars

\* Ver2 can only have been stored by its name while the model was IdB; the
\* model was then set again to IdA, and workspace and version stayed.
C22_Witness ==
    /\ kind = "ModelVersionScopedFilter"
    /\ last.op = "set_scope_model" /\ last.err = NoError
    /\ scope_workspace = W1 /\ model_id = IdA /\ model_version_id = Ver2

====
